---- MODULE Spec2Model ----
(***************************************************************************)
(* Emergency-room triage system (src/Triage.c): an array-backed binary     *)
(* min-heap of waiting patients, a bounded log of treated patients and the *)
(* TriageSystem that owns both and issues patient ids.                     *)
(*                                                                         *)
(* The C functions are operators over the structs they take; the public    *)
(* operations are actions.  Two specifications are given:                  *)
(*   Spec      the TriageSystem driven by add_patient / treat_next_patient *)
(*             / view_waiting_list / view_treated_log in any order;        *)
(*   HeapSpec  a MinHeap driven directly by insert_patient_to_heap and     *)
(*             extract_min (an insertion phase followed by extractions).   *)
(***************************************************************************)
EXTENDS Integers, Sequences, FiniteSets

VARIABLES
    waiting_list,     \* MinHeap: [patients, size, capacity]
    treated_log,      \* TreatedLog: [patients, size, capacity]
    next_patient_id,  \* TriageSystem.next_patient_id
    lastOp,           \* name of the function called last
    new_patient,      \* add_patient's local new_patient (<<>> when not built)
    ret,              \* value returned by extract_min in the last call (<<>> when not called)
    out,              \* lines printed by the last call
    admits,           \* number of add_patient calls made so far
    phase,            \* HeapSpec: "insert" until the first extract_min, then "extract"
    inserted,         \* HeapSpec: patients passed to insert_patient_to_heap, in call order
    returned,         \* HeapSpec: values returned by extract_min, in call order
    admitted,         \* patients whose add_patient call met no "waiting list is full" error
    served,           \* patients treat_next_patient took out of the waiting list, in call order
    calls,            \* MainSpec: the calls made so far, in order
    drain             \* DrainSpec: <<>> or the waiting list and served count when draining began

vars == <<waiting_list, treated_log, next_patient_id, lastOp, new_patient,
          ret, out, admits, phase, inserted, returned,
          admitted, served, calls, drain>>

---------------------------------------------------------------------------
(* Bounds of the model *)

\* largest initial_capacity handed to create_triage_system in Spec
MaxCapacity == 5
\* largest capacity handed to create_heap in HeapSpec
MaxHeapCapacity == 6
\* priorities range over -1 .. MaxPriority (negative, zero, duplicates)
MaxPriority == 0
\* number of add_patient calls Spec makes at most
MaxAdmits == 5
\* number of add_patient calls DrainSpec makes at most
MaxDrainAdmits == 4
\* number of calls MainSpec makes at most
MaxMainCalls == 11
\* number of extract_min calls HeapSpec makes beyond the number of insertions
MaxExtraExtracts == 1

Priorities == (0 - 1) .. MaxPriority
Names == {"p"}

---------------------------------------------------------------------------
(* Data *)

\* typedef struct { char name[60]; int priority_level; int patient_id; } Patient;
Patient(name, priority, id) ==
    [name |-> name, priority_level |-> priority, patient_id |-> id]

\* a slot of a malloc'ed Patient array that has never been written
Uninit == [name |-> "?", priority_level |-> 0, patient_id |-> 0]

\* Patient empty_patient = {"", -1, -1};
empty_patient == [name |-> "", priority_level |-> 0 - 1, patient_id |-> 0 - 1]

\* a printed line: the format string and its arguments
Line(text, args) == [text |-> text, args |-> args]

\* C's integer division truncates toward zero
c_div(a, b) == IF a >= 0 THEN a \div b ELSE 0 - ((0 - a) \div b)

\* MinHeap* create_heap(int capacity)
create_heap(capacity) ==
    [patients |-> [i \in 0 .. capacity - 1 |-> Uninit],
     size     |-> 0,
     capacity |-> capacity]

\* void swap(Patient* a, Patient* b), on two slots of one array
swap(patients, a, b) ==
    [patients EXCEPT ![a] = patients[b], ![b] = patients[a]]

---------------------------------------------------------------------------
(* The min-heap *)

\* heapify_up that swaps with the parent once and does not continue upward
heapify_up_once(heap, index) ==
    LET parent_index == c_div(index - 1, 2)
    IN  IF /\ index > 0
           /\ heap.patients[index].priority_level
                < heap.patients[parent_index].priority_level
        THEN [heap EXCEPT !.patients = swap(heap.patients, index, parent_index)]
        ELSE heap

\* void heapify_up(MinHeap* heap, int index)
RECURSIVE heapify_up(_, _)
heapify_up(heap, index) ==
    LET parent_index == c_div(index - 1, 2)
    IN  IF /\ index > 0
           /\ heap.patients[index].priority_level
                < heap.patients[parent_index].priority_level
        THEN heapify_up(
                 [heap EXCEPT !.patients = swap(heap.patients, index, parent_index)],
                 parent_index)
        ELSE heap

\* heapify_down whose test of the right child is <= instead of <
RECURSIVE heapify_down_right_on_tie(_, _)
heapify_down_right_on_tie(heap, index) ==
    LET left_child  == 2 * index + 1
        right_child == 2 * index + 2
        smallest1 ==
            IF /\ left_child < heap.size
               /\ heap.patients[left_child].priority_level
                    < heap.patients[index].priority_level
            THEN left_child ELSE index
        smallest ==
            IF /\ right_child < heap.size
               /\ heap.patients[right_child].priority_level
                    <= heap.patients[smallest1].priority_level
            THEN right_child ELSE smallest1
    IN  IF smallest # index
        THEN heapify_down_right_on_tie(
                 [heap EXCEPT !.patients = swap(heap.patients, index, smallest)],
                 smallest)
        ELSE heap

\* heapify_down whose test of the left child is <= instead of <
RECURSIVE heapify_down_left_on_equal(_, _)
heapify_down_left_on_equal(heap, index) ==
    LET left_child  == 2 * index + 1
        right_child == 2 * index + 2
        smallest1 ==
            IF /\ left_child < heap.size
               /\ heap.patients[left_child].priority_level
                    <= heap.patients[index].priority_level
            THEN left_child ELSE index
        smallest ==
            IF /\ right_child < heap.size
               /\ heap.patients[right_child].priority_level
                    < heap.patients[smallest1].priority_level
            THEN right_child ELSE smallest1
    IN  IF smallest # index
        THEN heapify_down_left_on_equal(
                 [heap EXCEPT !.patients = swap(heap.patients, index, smallest)],
                 smallest)
        ELSE heap

\* heapify_down that never looks at the right child
RECURSIVE heapify_down_left_only(_, _)
heapify_down_left_only(heap, index) ==
    LET left_child == 2 * index + 1
        smallest ==
            IF /\ left_child < heap.size
               /\ heap.patients[left_child].priority_level
                    < heap.patients[index].priority_level
            THEN left_child ELSE index
    IN  IF smallest # index
        THEN heapify_down_left_only(
                 [heap EXCEPT !.patients = swap(heap.patients, index, smallest)],
                 smallest)
        ELSE heap

\* void heapify_down(MinHeap* heap, int index)
RECURSIVE heapify_down(_, _)
heapify_down(heap, index) ==
    LET left_child  == 2 * index + 1
        right_child == 2 * index + 2
        smallest1 ==
            IF /\ left_child < heap.size
               /\ heap.patients[left_child].priority_level
                    < heap.patients[index].priority_level
            THEN left_child ELSE index
        smallest ==
            IF /\ right_child < heap.size
               /\ heap.patients[right_child].priority_level
                    < heap.patients[smallest1].priority_level
            THEN right_child ELSE smallest1
    IN  IF smallest # index
        THEN heapify_down(
                 [heap EXCEPT !.patients = swap(heap.patients, index, smallest)],
                 smallest)
        ELSE heap

\* insert_patient_to_heap that, on a full heap, puts the patient in the last slot
insert_patient_to_heap_overwrite(heap, patient) ==
    IF heap.size = heap.capacity
    THEN [heap |-> heapify_up([heap EXCEPT !.patients[heap.size - 1] = patient],
                              heap.size - 1),
          out  |-> <<Line("Error: Waiting list is full. Cannot add more patients.", <<>>)>>]
    ELSE LET index == (heap.size + 1) - 1
             h1 == [heap EXCEPT !.size = heap.size + 1,
                                !.patients[index] = patient]
         IN  [heap |-> heapify_up(h1, index), out |-> <<>>]

\* void insert_patient_to_heap(MinHeap* heap, Patient patient)
\* result: the heap afterwards and the lines printed
insert_patient_to_heap(heap, patient) ==
    IF heap.size = heap.capacity
    THEN [heap |-> heap,
          out  |-> <<Line("Error: Waiting list is full. Cannot add more patients.", <<>>)>>]
    ELSE LET index == (heap.size + 1) - 1
             h1 == [heap EXCEPT !.size = heap.size + 1,
                                !.patients[index] = patient]
         IN  [heap |-> heapify_up(h1, index), out |-> <<>>]

\* extract_min that moves the last patient to the root and leaves it there
extract_min_no_heapify(heap) ==
    IF heap.size <= 0
    THEN [heap |-> heap, ret |-> empty_patient]
    ELSE IF heap.size = 1
    THEN [heap |-> [heap EXCEPT !.size = heap.size - 1],
          ret  |-> heap.patients[0]]
    ELSE [heap |-> [heap EXCEPT !.patients[0] = heap.patients[heap.size - 1],
                                !.size = heap.size - 1],
          ret  |-> heap.patients[0]]

\* extract_min that copies the last patient to the root and forgets heap->size--
extract_min_no_decrement(heap) ==
    IF heap.size <= 0
    THEN [heap |-> heap, ret |-> empty_patient]
    ELSE IF heap.size = 1
    THEN [heap |-> [heap EXCEPT !.size = heap.size - 1],
          ret  |-> heap.patients[0]]
    ELSE LET root == heap.patients[0]
             h1 == [heap EXCEPT !.patients[0] = heap.patients[heap.size - 1]]
         IN  [heap |-> heapify_down(h1, 0), ret |-> root]

\* Patient extract_min(MinHeap* heap)
\* result: the heap afterwards and the Patient returned
extract_min(heap) ==
    IF heap.size <= 0
    THEN [heap |-> heap, ret |-> empty_patient]
    ELSE IF heap.size = 1
    THEN [heap |-> [heap EXCEPT !.size = heap.size - 1],
          ret  |-> heap.patients[0]]
    ELSE LET root == heap.patients[0]
             h1 == [heap EXCEPT !.patients[0] = heap.patients[heap.size - 1],
                                !.size = heap.size - 1]
         IN  [heap |-> heapify_down(h1, 0), ret |-> root]

---------------------------------------------------------------------------
(* The triage system *)

\* TriageSystem* create_triage_system(int initial_capacity)
create_triage_system(initial_capacity) ==
    [waiting_list    |-> create_heap(initial_capacity),
     treated_log     |-> [patients |-> [i \in 0 .. initial_capacity - 1 |-> Uninit],
                          size     |-> 0,
                          capacity |-> initial_capacity],
     next_patient_id |-> 1]

\* add_patient that consumes an id only when the patient went into the heap
add_patient_id_on_success(system, name, priority) ==
    LET patient == Patient(name, priority, system.next_patient_id)
        ins == insert_patient_to_heap(system.waiting_list, patient)
    IN  [system |-> [system EXCEPT
                        !.next_patient_id =
                            IF ins.heap.size > system.waiting_list.size
                            THEN system.next_patient_id + 1
                            ELSE system.next_patient_id,
                        !.waiting_list = ins.heap],
         new_patient |-> patient,
         out |-> ins.out \o
                 <<Line("NEW PATIENT: '%s' added to waiting list with priority %d.",
                        <<name, priority>>)>>]

\* void add_patient(TriageSystem* system, const char* name, int priority)
\* result: the system afterwards, the local new_patient and the lines printed
add_patient(system, name, priority) ==
    LET patient == Patient(name, priority, system.next_patient_id)
        ins == insert_patient_to_heap(system.waiting_list, patient)
    IN  [system |-> [system EXCEPT !.next_patient_id = system.next_patient_id + 1,
                                   !.waiting_list = ins.heap],
         new_patient |-> patient,
         out |-> ins.out \o
                 <<Line("NEW PATIENT: '%s' added to waiting list with priority %d.",
                        <<name, priority>>)>>]

\* the "ID: %d, Name: %s, Priority: %d" arguments of a patient
PatientArgs(p) == <<p.patient_id, p.name, p.priority_level>>

\* the log append with the capacity test off by one (size <= capacity)
append_treated_off_by_one(log, patient_to_treat) ==
    IF log.size <= log.capacity
    THEN [log |-> [log EXCEPT !.patients[log.size] = patient_to_treat,
                              !.size = log.size + 1],
          out |-> <<>>]
    ELSE [log |-> log,
          out |-> <<Line("Warning: Treated log is full.", <<>>)>>]

\* the log append that, on a full log, puts the patient in the last slot
append_treated_overwrite_last(log, patient_to_treat) ==
    IF log.size < log.capacity
    THEN [log |-> [log EXCEPT !.patients[log.size] = patient_to_treat,
                              !.size = log.size + 1],
          out |-> <<>>]
    ELSE [log |-> [log EXCEPT !.patients[log.capacity - 1] = patient_to_treat],
          out |-> <<Line("Warning: Treated log is full.", <<>>)>>]

\* the log append that puts the newest patient first and shifts the others up
append_treated_at_front(log, patient_to_treat) ==
    IF log.size < log.capacity
    THEN [log |-> [log EXCEPT
                      !.patients = [i \in DOMAIN log.patients |->
                                       IF i = 0 THEN patient_to_treat
                                       ELSE IF i <= log.size THEN log.patients[i - 1]
                                       ELSE log.patients[i]],
                      !.size = log.size + 1],
          out |-> <<>>]
    ELSE [log |-> log,
          out |-> <<Line("Warning: Treated log is full.", <<>>)>>]

\* treat_next_patient, lines 159-165: the treated patient goes to the log if it has room
\* result: the log afterwards and the lines printed
append_treated(log, patient_to_treat) ==
    IF log.size < log.capacity
    THEN [log |-> [log EXCEPT !.patients[log.size] = patient_to_treat,
                              !.size = log.size + 1],
          out |-> <<>>]
    ELSE [log |-> log,
          out |-> <<Line("Warning: Treated log is full.", <<>>)>>]

\* treat_next_patient that logs the patient now at the root, not the one extracted
treat_next_patient_logs_new_root(system) ==
    IF system.waiting_list.size = 0
    THEN [system |-> system,
          ret |-> <<>>,
          out |-> <<Line("SYSTEM: No patients in the waiting list to treat.", <<>>)>>]
    ELSE LET ex == extract_min(system.waiting_list)
             patient_to_treat == ex.ret
             app == append_treated(system.treated_log, ex.heap.patients[0])
         IN  [system |-> [system EXCEPT !.waiting_list = ex.heap,
                                        !.treated_log = app.log],
              ret |-> <<patient_to_treat>>,
              out |-> <<Line("TREATING NEXT PATIENT:", <<>>),
                        Line("  ID: %d, Name: %s, Priority: %d",
                             PatientArgs(patient_to_treat))>> \o app.out]

\* treat_next_patient without the check for an empty waiting list
treat_next_patient_no_guard(system) ==
    LET ex == extract_min(system.waiting_list)
        patient_to_treat == ex.ret
        app == append_treated(system.treated_log, patient_to_treat)
    IN  [system |-> [system EXCEPT !.waiting_list = ex.heap,
                                   !.treated_log = app.log],
         ret |-> <<patient_to_treat>>,
         out |-> <<Line("TREATING NEXT PATIENT:", <<>>),
                   Line("  ID: %d, Name: %s, Priority: %d",
                        PatientArgs(patient_to_treat))>> \o app.out]

\* void treat_next_patient(TriageSystem* system)
\* result: the system afterwards, what extract_min returned (if called), the lines printed
treat_next_patient(system) ==
    IF system.waiting_list.size = 0
    THEN [system |-> system,
          ret |-> <<>>,
          out |-> <<Line("SYSTEM: No patients in the waiting list to treat.", <<>>)>>]
    ELSE LET ex == extract_min(system.waiting_list)
             patient_to_treat == ex.ret
             app == append_treated(system.treated_log, patient_to_treat)
         IN  [system |-> [system EXCEPT !.waiting_list = ex.heap,
                                        !.treated_log = app.log],
              ret |-> <<patient_to_treat>>,
              out |-> <<Line("TREATING NEXT PATIENT:", <<>>),
                        Line("  ID: %d, Name: %s, Priority: %d",
                             PatientArgs(patient_to_treat))>> \o app.out]

\* view_waiting_list that shows the patient in the last used slot as the next one
view_waiting_list_shows_last(system) ==
    <<Line("--- Current Waiting List ---", <<>>)>> \o
    (IF system.waiting_list.size = 0
     THEN <<Line("  (The waiting list is empty)", <<>>)>>
     ELSE LET next_patient == system.waiting_list.patients[system.waiting_list.size - 1]
          IN  <<Line("  Total patients waiting: %d", <<system.waiting_list.size>>),
                Line("  Next to be treated: ID: %d, Name: %s, Priority: %d",
                     PatientArgs(next_patient))>>)

\* void view_waiting_list(TriageSystem* system): the lines printed
view_waiting_list(system) ==
    <<Line("--- Current Waiting List ---", <<>>)>> \o
    (IF system.waiting_list.size = 0
     THEN <<Line("  (The waiting list is empty)", <<>>)>>
     ELSE LET next_patient == system.waiting_list.patients[0]
          IN  <<Line("  Total patients waiting: %d", <<system.waiting_list.size>>),
                Line("  Next to be treated: ID: %d, Name: %s, Priority: %d",
                     PatientArgs(next_patient))>>)

\* void view_treated_log(TriageSystem* system): the lines printed
view_treated_log(system) ==
    <<Line("--- Log of Treated Patients ---", <<>>)>> \o
    (IF system.treated_log.size = 0
     THEN <<Line("  (No patients have been treated yet)", <<>>)>>
     ELSE [i \in 1 .. system.treated_log.size |->
              Line("  ID: %d, Name: %s, Priority: %d",
                   PatientArgs(system.treated_log.patients[i - 1]))])

---------------------------------------------------------------------------
(* The array slots each function touches *)

\* heapify_up: the slots of heap->patients it reads or writes
RECURSIVE heapify_up_indices(_, _)
heapify_up_indices(heap, index) ==
    LET parent_index == c_div(index - 1, 2)
    IN  IF index > 0
        THEN {index, parent_index} \cup
             (IF heap.patients[index].priority_level
                   < heap.patients[parent_index].priority_level
              THEN heapify_up_indices(
                       [heap EXCEPT !.patients = swap(heap.patients, index, parent_index)],
                       parent_index)
              ELSE {})
        ELSE {}

\* heapify_down: the slots of heap->patients it reads or writes
RECURSIVE heapify_down_indices(_, _)
heapify_down_indices(heap, index) ==
    LET left_child  == 2 * index + 1
        right_child == 2 * index + 2
        smallest1 ==
            IF /\ left_child < heap.size
               /\ heap.patients[left_child].priority_level
                    < heap.patients[index].priority_level
            THEN left_child ELSE index
        smallest ==
            IF /\ right_child < heap.size
               /\ heap.patients[right_child].priority_level
                    < heap.patients[smallest1].priority_level
            THEN right_child ELSE smallest1
    IN  (IF left_child < heap.size THEN {left_child, index} ELSE {}) \cup
        (IF right_child < heap.size THEN {right_child, smallest1} ELSE {}) \cup
        (IF smallest # index
         THEN {index, smallest} \cup
              heapify_down_indices(
                  [heap EXCEPT !.patients = swap(heap.patients, index, smallest)],
                  smallest)
         ELSE {})

\* insert_patient_to_heap: the slots of heap->patients it reads or writes
insert_indices(heap, patient) ==
    IF heap.size = heap.capacity
    THEN {}
    ELSE LET index == (heap.size + 1) - 1
             h1 == [heap EXCEPT !.size = heap.size + 1,
                                !.patients[index] = patient]
         IN  {index} \cup heapify_up_indices(h1, index)

\* extract_min: the slots of heap->patients it reads or writes
extract_indices(heap) ==
    IF heap.size <= 0
    THEN {}
    ELSE IF heap.size = 1
    THEN {0}
    ELSE LET h1 == [heap EXCEPT !.patients[0] = heap.patients[heap.size - 1],
                                !.size = heap.size - 1]
         IN  {0, heap.size - 1} \cup heapify_down_indices(h1, 0)

\* treat_next_patient, line 161: the slot of treated_log->patients it writes
append_indices(log) ==
    IF log.size < log.capacity THEN {log.size} ELSE {}

---------------------------------------------------------------------------
(* Spec: the triage system under arbitrary calls *)

\* format strings of the messages the properties look for
HeapFullLine == "Error: Waiting list is full. Cannot add more patients."
AddedLine == "NEW PATIENT: '%s' added to waiting list with priority %d."
NothingToTreatLine == "SYSTEM: No patients in the waiting list to treat."
LogFullLine == "Warning: Treated log is full."

\* some line of the printed lines has the given format string
HasLine(lines, text) == \E k \in 1 .. Len(lines) : lines[k].text = text

\* the TriageSystem the variables hold
System ==
    [waiting_list |-> waiting_list, treated_log |-> treated_log,
     next_patient_id |-> next_patient_id]

\* TriageSystem* er = create_triage_system(c), for a positive c
Init ==
    \E c \in 1 .. MaxCapacity :
        LET er == create_triage_system(c)
        IN  /\ waiting_list = er.waiting_list
            /\ treated_log = er.treated_log
            /\ next_patient_id = er.next_patient_id
            /\ lastOp = "create_triage_system"
            /\ new_patient = <<>>
            /\ ret = <<>>
            /\ out = <<>>
            /\ admits = 0
            /\ phase = "system"
            /\ inserted = <<>>
            /\ returned = <<>>
            /\ admitted = {}
            /\ served = <<>>
            /\ calls = <<>>
            /\ drain = <<>>

\* a call add_patient(er, name, priority)
AddPatient ==
    /\ admits < MaxAdmits
    /\ \E name \in Names, priority \in Priorities :
        LET r == add_patient(System, name, priority)
        IN  /\ waiting_list' = r.system.waiting_list
            /\ treated_log' = r.system.treated_log
            /\ next_patient_id' = r.system.next_patient_id
            /\ new_patient' = <<r.new_patient>>
            /\ out' = r.out
            /\ admitted' = IF HasLine(r.out, HeapFullLine)
                           THEN admitted
                           ELSE admitted \cup {r.new_patient}
    /\ lastOp' = "add_patient"
    /\ ret' = <<>>
    /\ admits' = admits + 1
    /\ UNCHANGED <<phase, inserted, returned, served, calls, drain>>

\* a call treat_next_patient(er)
TreatNextPatient ==
    /\ LET r == treat_next_patient(System)
       IN  /\ waiting_list' = r.system.waiting_list
           /\ treated_log' = r.system.treated_log
           /\ next_patient_id' = r.system.next_patient_id
           /\ ret' = r.ret
           /\ out' = r.out
           /\ served' = served \o r.ret
    /\ lastOp' = "treat_next_patient"
    /\ new_patient' = <<>>
    /\ UNCHANGED <<admits, phase, inserted, returned, admitted, calls, drain>>

\* a call view_waiting_list(er)
ViewWaitingList ==
    /\ out' = view_waiting_list(System)
    /\ lastOp' = "view_waiting_list"
    /\ new_patient' = <<>>
    /\ ret' = <<>>
    /\ UNCHANGED <<waiting_list, treated_log, next_patient_id,
                   admits, phase, inserted, returned, admitted, served, calls, drain>>

\* a call view_treated_log(er)
ViewTreatedLog ==
    /\ out' = view_treated_log(System)
    /\ lastOp' = "view_treated_log"
    /\ new_patient' = <<>>
    /\ ret' = <<>>
    /\ UNCHANGED <<waiting_list, treated_log, next_patient_id,
                   admits, phase, inserted, returned, admitted, served, calls, drain>>

Next ==
    \/ AddPatient
    \/ TreatNextPatient
    \/ ViewWaitingList
    \/ ViewTreatedLog

Spec == Init /\ [][Next]_vars

---------------------------------------------------------------------------
(* HeapSpec: a MinHeap under direct calls, insertions first, then extractions *)

\* MinHeap* heap = create_heap(c), for a positive c
HeapInit ==
    \E c \in 1 .. MaxHeapCapacity :
        /\ waiting_list = create_heap(c)
        /\ treated_log = create_triage_system(c).treated_log
        /\ next_patient_id = 1
        /\ lastOp = "create_heap"
        /\ new_patient = <<>>
        /\ ret = <<>>
        /\ out = <<>>
        /\ admits = 0
        /\ phase = "insert"
        /\ inserted = <<>>
        /\ returned = <<>>
        /\ admitted = {}
        /\ served = <<>>
        /\ calls = <<>>
        /\ drain = <<>>

\* a call insert_patient_to_heap(heap, patient) on a heap that has room
HeapInsert ==
    /\ phase = "insert"
    /\ waiting_list.size < waiting_list.capacity
    /\ \E name \in Names, priority \in Priorities :
        LET patient == Patient(name, priority, Len(inserted) + 1)
            r == insert_patient_to_heap(waiting_list, patient)
        IN  /\ waiting_list' = r.heap
            /\ out' = r.out
            /\ inserted' = Append(inserted, patient)
    /\ lastOp' = "insert_patient_to_heap"
    /\ ret' = <<>>
    /\ UNCHANGED <<treated_log, next_patient_id, new_patient, admits, phase, returned,
                   admitted, served, calls, drain>>

\* a call extract_min(heap), on an empty heap too
HeapExtractMin ==
    /\ Len(returned) < Len(inserted) + MaxExtraExtracts
    /\ LET r == extract_min(waiting_list)
       IN  /\ waiting_list' = r.heap
           /\ ret' = <<r.ret>>
           /\ returned' = Append(returned, r.ret)
    /\ lastOp' = "extract_min"
    /\ phase' = "extract"
    /\ out' = <<>>
    /\ UNCHANGED <<treated_log, next_patient_id, new_patient, admits, inserted,
                   admitted, served, calls, drain>>

HeapNext ==
    \/ HeapInsert
    \/ HeapExtractMin

HeapSpec == HeapInit /\ [][HeapNext]_vars

---------------------------------------------------------------------------
(* MainSpec: the system main() builds, fed main()'s patients in main()'s order *)

\* TriageSystem* er = create_triage_system(20);
MainCapacity == 20

\* the add_patient calls of main(), in order
MainPatients ==
    << <<"Ravi Kumar (Stable Condition)", 3>>,
       <<"Sita Sharma (Critical Injury)", 1>>,
       <<"Amit Patel (Urgent Care)", 2>>,
       <<"Priya Singh (Minor Issue)", 4>>,
       <<"John Doe (Head Trauma)", 1>> >>

MainInit ==
    LET er == create_triage_system(MainCapacity)
    IN  /\ waiting_list = er.waiting_list
        /\ treated_log = er.treated_log
        /\ next_patient_id = er.next_patient_id
        /\ lastOp = "create_triage_system"
        /\ new_patient = <<>>
        /\ ret = <<>>
        /\ out = <<>>
        /\ admits = 0
        /\ phase = "main"
        /\ inserted = <<>>
        /\ returned = <<>>
        /\ admitted = {}
        /\ served = <<>>
        /\ calls = <<>>
        /\ drain = <<>>

\* the next add_patient call of main()
MainAddPatient ==
    /\ Len(calls) < MaxMainCalls
    /\ admits < Len(MainPatients)
    /\ LET r == add_patient(System, MainPatients[admits + 1][1], MainPatients[admits + 1][2])
       IN  /\ waiting_list' = r.system.waiting_list
           /\ treated_log' = r.system.treated_log
           /\ next_patient_id' = r.system.next_patient_id
           /\ new_patient' = <<r.new_patient>>
           /\ out' = r.out
           /\ admitted' = IF HasLine(r.out, HeapFullLine)
                          THEN admitted
                          ELSE admitted \cup {r.new_patient}
    /\ lastOp' = "add_patient"
    /\ ret' = <<>>
    /\ admits' = admits + 1
    /\ calls' = Append(calls, "add_patient")
    /\ UNCHANGED <<phase, inserted, returned, served, drain>>

\* a treat_next_patient(er) call, at any point between main()'s admissions
MainTreatNextPatient ==
    /\ Len(calls) < MaxMainCalls
    /\ LET r == treat_next_patient(System)
       IN  /\ waiting_list' = r.system.waiting_list
           /\ treated_log' = r.system.treated_log
           /\ next_patient_id' = r.system.next_patient_id
           /\ ret' = r.ret
           /\ out' = r.out
           /\ served' = served \o r.ret
    /\ lastOp' = "treat_next_patient"
    /\ new_patient' = <<>>
    /\ calls' = Append(calls, "treat_next_patient")
    /\ UNCHANGED <<admits, phase, inserted, returned, admitted, drain>>

\* a view_waiting_list(er) call, at any point
MainViewWaitingList ==
    /\ Len(calls) < MaxMainCalls
    /\ out' = view_waiting_list(System)
    /\ lastOp' = "view_waiting_list"
    /\ new_patient' = <<>>
    /\ ret' = <<>>
    /\ calls' = Append(calls, "view_waiting_list")
    /\ UNCHANGED <<waiting_list, treated_log, next_patient_id,
                   admits, phase, inserted, returned, admitted, served, drain>>

MainNext ==
    \/ MainAddPatient
    \/ MainTreatNextPatient
    \/ MainViewWaitingList

MainSpec == MainInit /\ [][MainNext]_vars

---------------------------------------------------------------------------
(* DrainSpec: admissions and treatments in any order, then treatments only *)

\* a call add_patient(er, name, priority) before draining begins
DrainAddPatient ==
    /\ drain = <<>>
    /\ admits < MaxDrainAdmits
    /\ AddPatient

\* a call treat_next_patient(er) before draining begins
DrainTreatBefore ==
    /\ drain = <<>>
    /\ TreatNextPatient

\* from here on the caller only calls treat_next_patient; the waiting list and
\* the number of patients treated so far are noted
StartDrain ==
    /\ drain = <<>>
    /\ drain' = <<[heap |-> waiting_list, served |-> Len(served)]>>
    /\ UNCHANGED <<waiting_list, treated_log, next_patient_id, lastOp, new_patient,
                   ret, out, admits, phase, inserted, returned, admitted, served, calls>>

\* a call treat_next_patient(er) while draining
DrainTreat ==
    /\ drain # <<>>
    /\ TreatNextPatient

DrainNext ==
    \/ DrainAddPatient
    \/ DrainTreatBefore
    \/ StartDrain
    \/ DrainTreat

\* while draining, the caller keeps calling treat_next_patient
DrainSpec == Init /\ [][DrainNext]_vars /\ WF_vars(DrainTreat)

---------------------------------------------------------------------------
(* Properties *)

\* the patients a heap or a log holds: slots 0 .. size-1
Entries(store) == {store.patients[i] : i \in 0 .. store.size - 1}

\* the last call printed a line with the given format string
Printed(text) == HasLine(out, text)


HeapOrder(heap) ==
    \A i \in 0 .. heap.size - 1 :
        /\ 2 * i + 1 < heap.size =>
             heap.patients[i].priority_level <= heap.patients[2 * i + 1].priority_level
        /\ 2 * i + 2 < heap.size =>
             heap.patients[i].priority_level <= heap.patients[2 * i + 2].priority_level

\* C1: after every add_patient and treat_next_patient call the heap-order
\* invariant holds: each slot i of the waiting list has a priority no greater
\* than that of its children at 2i+1 and 2i+2, when those are below size.
C1_HeapOrder == HeapOrder(waiting_list)

\* C1 witness: a treat_next_patient call has left four patients waiting (a
\* root whose left child has a child of its own), among them a negative
\* priority, a zero priority and two equal ones.
C1_Witness ==
    /\ lastOp = "treat_next_patient"
    /\ waiting_list.size = 4
    /\ \E i, j \in 0 .. 3 :
        /\ i # j
        /\ waiting_list.patients[i].priority_level = waiting_list.patients[j].priority_level
    /\ \E i, j \in 0 .. 3 :
        /\ waiting_list.patients[i].priority_level < 0
        /\ waiting_list.patients[j].priority_level = 0

\* C2: slot 0 of a non-empty waiting list holds a minimum-priority patient, and
\* a treat_next_patient call on a non-empty waiting list returns a patient whose
\* priority is no greater than that of any patient waiting before the call, and
\* removes exactly that patient from the waiting list.
C2_ExtractsMinimum ==
    /\ [](waiting_list.size > 0 =>
            \A i \in 0 .. waiting_list.size - 1 :
                waiting_list.patients[0].priority_level
                    <= waiting_list.patients[i].priority_level)
    /\ [][(TreatNextPatient /\ waiting_list.size > 0) =>
            /\ Len(ret') = 1
            /\ \A i \in 0 .. waiting_list.size - 1 :
                  ret'[1].priority_level <= waiting_list.patients[i].priority_level
            /\ ret'[1] \in Entries(waiting_list)
            /\ waiting_list'.size = waiting_list.size - 1
            /\ Entries(waiting_list') = Entries(waiting_list) \ {ret'[1]}]_vars

\* C2 witness: treat_next_patient returned a patient and left waiting both a
\* patient of strictly greater priority and one of the same priority.
C2_Witness ==
    /\ lastOp = "treat_next_patient"
    /\ Len(ret) = 1
    /\ \E p, q \in Entries(waiting_list) :
        /\ p.priority_level > ret[1].priority_level
        /\ q.priority_level = ret[1].priority_level

\* C3: n patients inserted into an empty heap and then n extract_min calls:
\* the n values returned are in non-decreasing priority order, pairwise
\* different, and exactly the n patients inserted.
C3_SortedPermutation ==
    LET n == Len(inserted)
        m == IF Len(returned) < n THEN Len(returned) ELSE n
    IN  /\ \A k \in 1 .. m - 1 :
              returned[k].priority_level <= returned[k + 1].priority_level
        /\ \A j, k \in 1 .. m : j # k => returned[j] # returned[k]
        /\ {returned[k] : k \in 1 .. m} \subseteq {inserted[k] : k \in 1 .. n}
        /\ Len(returned) >= n =>
              {returned[k] : k \in 1 .. n} = {inserted[k] : k \in 1 .. n}

\* C3 witness: five patients were inserted, not in priority order and with a
\* repeated priority, and all five have been extracted again.
C3_Witness ==
    /\ Len(inserted) = 5
    /\ Len(returned) = 5
    /\ \E k \in 1 .. 4 : inserted[k].priority_level > inserted[k + 1].priority_level
    /\ \E k \in 1 .. 4 : inserted[k].priority_level < inserted[k + 1].priority_level

\* C4: next_patient_id starts at 1; the k-th add_patient call gives its patient
\* the id k and raises next_patient_id by exactly 1, also when the waiting list
\* is full and the patient is rejected; no other call changes next_patient_id.
C4_IdentifiersInCallOrder ==
    /\ [](next_patient_id = admits + 1)
    /\ [][IF AddPatient
          THEN /\ Len(new_patient') = 1
               /\ new_patient'[1].patient_id = admits + 1
               /\ next_patient_id' = next_patient_id + 1
          ELSE next_patient_id' = next_patient_id]_vars

\* C4 witness: the third or a later add_patient call was rejected by a full
\* waiting list, and it still used up the id of its call number.
C4_Witness ==
    /\ lastOp = "add_patient"
    /\ Printed(HeapFullLine)
    /\ new_patient[1].patient_id = admits
    /\ new_patient[1] \notin Entries(waiting_list)
    /\ next_patient_id = new_patient[1].patient_id + 1
    /\ admits >= 3

\* C5: an insertion into a waiting list with size = capacity changes neither
\* the size nor any slot of the waiting list, and the rejected patient is
\* neither in the waiting list nor in the treated log afterwards.
C5_FullInsertRejected ==
    [][(AddPatient /\ waiting_list.size = waiting_list.capacity) =>
        /\ waiting_list' = waiting_list
        /\ treated_log' = treated_log
        /\ Len(new_patient') = 1
        /\ new_patient'[1] \notin Entries(waiting_list') \cup Entries(treated_log')]_vars

\* C5 witness: add_patient has just been refused by a full waiting list of at
\* least three patients.
C5_Witness ==
    /\ lastOp = "add_patient"
    /\ Printed(HeapFullLine)
    /\ waiting_list.size = waiting_list.capacity
    /\ waiting_list.size >= 3
    /\ new_patient[1] \notin Entries(waiting_list)

\* C6: extract_min on a heap of size 0 fails explicitly: it hands back no
\* Patient record at all, and the size stays 0.
C6_EmptyExtractFails ==
    [][(HeapExtractMin /\ waiting_list.size = 0) =>
        /\ ret' = <<>>
        /\ waiting_list'.size = 0]_vars

\* C6, what the code does: extract_min on a heap of size 0 hands back the
\* record {"", -1, -1}, leaving the heap as it was.
C6_EmptyExtractReturnsSentinel ==
    [][(HeapExtractMin /\ waiting_list.size = 0) =>
        /\ ret' = <<empty_patient>>
        /\ waiting_list' = waiting_list]_vars

\* C7: add_patient reports the patient as added to the waiting list exactly
\* when the patient was placed in the waiting list.
C7_AdmitReportMirrorsInsert ==
    lastOp = "add_patient" =>
        (Printed(AddedLine) <=> new_patient[1] \in Entries(waiting_list))

\* C7, what the code does: add_patient prints the "added to waiting list" line
\* on every call; a rejected patient gets the "waiting list is full" line of
\* insert_patient_to_heap in front of it.
C7_AdmitAlwaysReportsAdded ==
    lastOp = "add_patient" =>
        /\ Printed(AddedLine)
        /\ Printed(HeapFullLine) <=> new_patient[1] \notin Entries(waiting_list)

\* C8: treat_next_patient on an empty waiting list returns no patient and
\* leaves the waiting list, the treated log and next_patient_id as they were.
C8_EmptyServeNoChange ==
    [][(TreatNextPatient /\ waiting_list.size = 0) =>
        /\ ret' = <<>>
        /\ out' = <<Line(NothingToTreatLine, <<>>)>>
        /\ waiting_list' = waiting_list
        /\ treated_log' = treated_log
        /\ next_patient_id' = next_patient_id]_vars

\* C8 witness: treat_next_patient found the waiting list empty in a system that
\* has already admitted and treated patients.
C8_Witness ==
    /\ lastOp = "treat_next_patient"
    /\ Printed(NothingToTreatLine)
    /\ ret = <<>>
    /\ waiting_list.size = 0
    /\ treated_log.size >= 2
    /\ next_patient_id >= 3

\* C9: treat_next_patient on a non-empty waiting list with a full treated log
\* still removes the patient at the root (size decreases by 1), leaves the
\* length and contents of the log unchanged, and the treated patient is
\* afterwards neither in the waiting list nor in the log.
C9_LogFullStillServes ==
    [][(/\ TreatNextPatient
        /\ waiting_list.size > 0
        /\ treated_log.size = treated_log.capacity) =>
        /\ ret' = <<waiting_list.patients[0]>>
        /\ waiting_list'.size = waiting_list.size - 1
        /\ Entries(waiting_list') = Entries(waiting_list) \ {ret'[1]}
        /\ treated_log' = treated_log
        /\ ret'[1] \notin Entries(waiting_list') \cup Entries(treated_log')]_vars

\* C9 witness: treat_next_patient has just warned that the log is full, and
\* the patient it took out of the waiting list is in neither store.
C9_Witness ==
    /\ lastOp = "treat_next_patient"
    /\ Printed(LogFullLine)
    /\ Len(ret) = 1
    /\ treated_log.size = treated_log.capacity
    /\ treated_log.size >= 2
    /\ ret[1] \notin Entries(waiting_list) \cup Entries(treated_log)

\* C10: the treated log is append-only: no call shortens it or changes an
\* entry it already holds, and the only change to it is a treat_next_patient
\* call that puts the patient it just extracted right after the last entry.
C10_LogAppendOnly ==
    [][/\ treated_log'.size >= treated_log.size
       /\ \A i \in 0 .. treated_log.size - 1 :
             treated_log'.patients[i] = treated_log.patients[i]
       /\ treated_log' # treated_log =>
             /\ TreatNextPatient
             /\ waiting_list.size > 0
             /\ treated_log'.size = treated_log.size + 1
             /\ ret' = <<treated_log'.patients[treated_log.size]>>]_vars

\* C10 witness: the log holds at least three patients, treated in an order
\* that is not sorted by priority, the last of them by the call just made.
C10_Witness ==
    /\ lastOp = "treat_next_patient"
    /\ treated_log.size >= 3
    /\ ret = <<treated_log.patients[treated_log.size - 1]>>
    /\ \E i \in 0 .. treated_log.size - 2 :
          treated_log.patients[i].priority_level
              > treated_log.patients[i + 1].priority_level

\* the lines view_treated_log prints for a non-empty sequence of patients
LogLines(patients) ==
    <<Line("--- Log of Treated Patients ---", <<>>)>> \o
    [i \in 1 .. Len(patients) |->
        Line("  ID: %d, Name: %s, Priority: %d", PatientArgs(patients[i]))]

\* C11: while the log is not full, a treat_next_patient call on a non-empty
\* waiting list puts exactly the patient it extracted after the last log entry
\* (size + 1, nothing else changed), so as long as no more patients were
\* treated than the log holds, the log and what view_treated_log prints are the
\* treated patients in the order treated; add_patient, accepted or rejected,
\* leaves the log as it was.
C11_ServeAppendsToLog ==
    /\ [](Len(served) <= treated_log.capacity =>
            /\ treated_log.size = Len(served)
            /\ \A i \in 1 .. Len(served) : treated_log.patients[i - 1] = served[i]
            /\ (lastOp = "view_treated_log" /\ Len(served) > 0) =>
                  out = LogLines(served))
    /\ [][(/\ TreatNextPatient
           /\ waiting_list.size > 0
           /\ treated_log.size < treated_log.capacity) =>
            /\ ret' = <<waiting_list.patients[0]>>
            /\ treated_log' =
                 [treated_log EXCEPT !.patients[treated_log.size] = ret'[1],
                                     !.size = treated_log.size + 1]]_vars
    /\ [][AddPatient => treated_log' = treated_log]_vars

\* C11 witness: three patients were treated and logged in that order, and the
\* call just made is an add_patient after them.
C11_Witness ==
    /\ lastOp = "add_patient"
    /\ Len(served) = 3
    /\ treated_log.size = 3
    /\ \A i \in 1 .. 3 : treated_log.patients[i - 1] = served[i]
    /\ new_patient[1].patient_id > served[3].patient_id

\* C12: view_waiting_list changes neither the waiting list, the log nor
\* next_patient_id; it reports the current size of the waiting list (an empty
\* list as empty) and, when the list is not empty, the patient at the root,
\* which is the very patient a treat_next_patient call made right after it
\* treats.
C12_PeekWaiting ==
    /\ [](lastOp = "view_waiting_list" =>
            IF waiting_list.size = 0
            THEN out = <<Line("--- Current Waiting List ---", <<>>),
                         Line("  (The waiting list is empty)", <<>>)>>
            ELSE /\ Len(out) = 3
                 /\ out[2].args = <<waiting_list.size>>
                 /\ out[3].args = PatientArgs(waiting_list.patients[0]))
    /\ [][ViewWaitingList =>
            /\ waiting_list' = waiting_list
            /\ treated_log' = treated_log
            /\ next_patient_id' = next_patient_id]_vars
    /\ [][(/\ lastOp = "view_waiting_list"
           /\ waiting_list.size > 0
           /\ TreatNextPatient) =>
            /\ Len(ret') = 1
            /\ PatientArgs(ret'[1]) = out[3].args]_vars

\* C12 witness: view_waiting_list has just shown a waiting list of at least
\* three patients whose root is neither the first admitted of them nor the
\* patient in the last slot.
C12_Witness ==
    /\ lastOp = "view_waiting_list"
    /\ waiting_list.size >= 3
    /\ out[2].args = <<waiting_list.size>>
    /\ out[3].args[1] = waiting_list.patients[0].patient_id
    /\ waiting_list.patients[0] # waiting_list.patients[waiting_list.size - 1]
    /\ \E i \in 1 .. waiting_list.size - 1 :
          waiting_list.patients[i].patient_id < waiting_list.patients[0].patient_id

\* the calls made so far that are not view_waiting_list calls
Mutating == SelectSeq(calls, LAMBDA c : c # "view_waiting_list")

\* main()'s first four admissions followed by two treat_next_patient calls
ScenarioA ==
    <<"add_patient", "add_patient", "add_patient", "add_patient",
      "treat_next_patient", "treat_next_patient">>

\* ... followed by the admission of the fifth patient
ScenarioB == Append(ScenarioA, "add_patient")

\* main()'s patient number k as add_patient builds it
MainPatient(k) == Patient(MainPatients[k][1], MainPatients[k][2], k)

\* C13 as claimed: after R(3), S(1), A(2), P(4) are admitted, two patients are
\* treated (S, then A) and J(1) is admitted, view_waiting_list reports 2
\* patients waiting, J next, the waiting patients being P and J, and the next
\* treat_next_patient call treats J.
C13_ScenarioB_AsClaimed ==
    /\ Mutating = ScenarioA => served = <<MainPatient(2), MainPatient(3)>>
    /\ Mutating = ScenarioB =>
          /\ waiting_list.size = 2
          /\ Entries(waiting_list) = {MainPatient(4), MainPatient(5)}
          /\ lastOp = "view_waiting_list" =>
                /\ out[2].args = <<2>>
                /\ out[3].args = PatientArgs(MainPatient(5))
    /\ (Mutating = Append(ScenarioB, "treat_next_patient")) =>
          served = <<MainPatient(2), MainPatient(3), MainPatient(5)>>

\* C13 amended: in that scenario R(3) is still waiting: view_waiting_list
\* reports 3 patients waiting, J(1) next, the waiting patients being R, P and
\* J, and the next three treat_next_patient calls treat J, then R, then P.
C13_ScenarioB ==
    /\ Mutating = ScenarioA => served = <<MainPatient(2), MainPatient(3)>>
    /\ Mutating = ScenarioB =>
          /\ waiting_list.size = 3
          /\ Entries(waiting_list) = {MainPatient(1), MainPatient(4), MainPatient(5)}
          /\ lastOp = "view_waiting_list" =>
                /\ out[2].args = <<3>>
                /\ out[3].args = PatientArgs(MainPatient(5))
    /\ (Mutating = Append(ScenarioB, "treat_next_patient")) =>
          served = <<MainPatient(2), MainPatient(3), MainPatient(5)>>
    /\ (Mutating = ScenarioB \o <<"treat_next_patient", "treat_next_patient">>) =>
          served = <<MainPatient(2), MainPatient(3), MainPatient(5), MainPatient(1)>>
    /\ (Mutating = ScenarioB \o <<"treat_next_patient", "treat_next_patient",
                                 "treat_next_patient">>) =>
          served = <<MainPatient(2), MainPatient(3), MainPatient(5),
                     MainPatient(1), MainPatient(4)>>

\* C13 witness: the scenario was run, view_waiting_list was called after J's
\* admission, and the three waiting patients have all been treated since.
C13_Witness ==
    /\ Mutating = ScenarioB \o <<"treat_next_patient", "treat_next_patient",
                                "treat_next_patient">>
    /\ calls = ScenarioB \o <<"view_waiting_list", "treat_next_patient",
                             "treat_next_patient", "treat_next_patient">>
    /\ waiting_list.size = 0

\* C14: no patient is held twice: the ids in slots 0 .. size-1 of the waiting
\* list and of the treated log are pairwise different (within the waiting
\* list, within the log, and between the two), and each lies in
\* 1 .. next_patient_id - 1.
C14_NoDuplicateIds ==
    LET H == 0 .. waiting_list.size - 1
        L == 0 .. treated_log.size - 1
    IN  /\ \A i, j \in H :
              i # j => waiting_list.patients[i].patient_id
                         # waiting_list.patients[j].patient_id
        /\ \A i, j \in L :
              i # j => treated_log.patients[i].patient_id
                         # treated_log.patients[j].patient_id
        /\ \A i \in H, j \in L :
              waiting_list.patients[i].patient_id # treated_log.patients[j].patient_id
        /\ \A i \in H : waiting_list.patients[i].patient_id \in 1 .. next_patient_id - 1
        /\ \A j \in L : treated_log.patients[j].patient_id \in 1 .. next_patient_id - 1

\* C14 witness: a patient has just moved from the waiting list to the log, both
\* hold at least two patients, and an id has been issued that is in neither.
C14_Witness ==
    /\ lastOp = "treat_next_patient"
    /\ Len(ret) = 1
    /\ waiting_list.size >= 2
    /\ treated_log.size >= 2
    /\ treated_log.patients[treated_log.size - 1] = ret[1]
    /\ \E id \in 1 .. next_patient_id - 1 :
          \A p \in Entries(waiting_list) \cup Entries(treated_log) : p.patient_id # id

\* C15: the waiting list and the log always have 0 <= size <= capacity, and
\* in every reachable state the next insertion (of any priority), the next
\* extraction and the next log append touch only slots 0 .. capacity-1 of
\* their arrays.
C15_IndicesInRange ==
    /\ 0 <= waiting_list.size /\ waiting_list.size <= waiting_list.capacity
    /\ 0 <= treated_log.size /\ treated_log.size <= treated_log.capacity
    /\ DOMAIN waiting_list.patients = 0 .. waiting_list.capacity - 1
    /\ DOMAIN treated_log.patients = 0 .. treated_log.capacity - 1
    /\ \A name \in Names, priority \in Priorities :
          insert_indices(waiting_list, Patient(name, priority, next_patient_id))
              \subseteq 0 .. waiting_list.capacity - 1
    /\ extract_indices(waiting_list) \subseteq 0 .. waiting_list.capacity - 1
    /\ append_indices(treated_log) \subseteq 0 .. treated_log.capacity - 1

\* C15 witness: the waiting list is one short of a capacity of five after a
\* patient was treated, so that the next insertion writes the last slot of the
\* heap array and walks up from it to the root, the next extraction reads the
\* last used slot, and the next log append writes the slot after the entry.
C15_Witness ==
    /\ lastOp = "treat_next_patient"
    /\ waiting_list.capacity = 5
    /\ waiting_list.size = 4
    /\ \E name \in Names, priority \in Priorities :
          insert_indices(waiting_list, Patient(name, priority, next_patient_id))
              = {4, 1, 0}
    /\ 3 \in extract_indices(waiting_list)
    /\ append_indices(treated_log) = {1}

\* extract_min, lines 108-109: the heap heapify_down(heap, 0) is called on
RootReplaced(heap) ==
    [heap EXCEPT !.patients[0] = heap.patients[heap.size - 1],
                 !.size = heap.size - 1]

\* the rule of C16 at node i of heap h and at every node the walk goes on to;
\* what heapify_down did at node i is read off its result: slot i is final
\* after the first swap, and the patients are told apart by their ids
RECURSIVE TieBreakRule(_, _)
TieBreakRule(h, i) ==
    LET L == 2 * i + 1
        R == 2 * i + 2
        r == heapify_down(h, i)
        leftSmaller ==
            L < h.size /\ h.patients[L].priority_level < h.patients[i].priority_level
        rightSmaller ==
            R < h.size /\ h.patients[R].priority_level < h.patients[i].priority_level
    IN  /\ (/\ R < h.size
            /\ h.patients[L].priority_level = h.patients[R].priority_level
            /\ leftSmaller) =>
               /\ r.patients[i] = h.patients[L]
               /\ r.patients[R] = h.patients[R]
        /\ (~leftSmaller /\ ~rightSmaller) => r = h
        /\ IF r.patients[i] = h.patients[i]
           THEN TRUE
           ELSE LET c == IF L < h.size /\ r.patients[i] = h.patients[L] THEN L ELSE R
                IN  TieBreakRule([h EXCEPT !.patients = swap(h.patients, i, c)], c)

\* C16: in the bubble-down of an extraction, at every node the walk visits: if
\* both children are within size, have equal priority and that priority is
\* strictly smaller than the node's, the node is swapped with the left child
\* and the right child stays; if no child within size is strictly smaller, the
\* walk stops there without a swap.
C16_LeftChildOnTie ==
    waiting_list.size >= 2 => TieBreakRule(RootReplaced(waiting_list), 0)

\* C16 witness: patients 1..4 with priorities -1, -1, -1, 0 were inserted and
\* one was extracted: patient 4 came to the root above two children of equal,
\* smaller priority, and it is the left one (patient 2) that moved up.
C16_Witness ==
    /\ Len(inserted) = 4
    /\ \A k \in 1 .. 3 : inserted[k].priority_level = 0 - 1
    /\ inserted[4].priority_level = 0
    /\ Len(returned) = 1
    /\ waiting_list.size = 3
    /\ waiting_list.patients[0].patient_id = 2
    /\ waiting_list.patients[1].patient_id = 4
    /\ waiting_list.patients[2].patient_id = 3

\* C17: service is not first-in first-out among equal priorities: whenever
\* exactly three patients (ids 1, 2, 3) of one and the same priority are
\* inserted and then extracted, patient 1 comes out first and patient 3 second,
\* that is before patient 2, who was inserted earlier and is still waiting.
C17_NotFifoAmongEquals ==
    (/\ Len(inserted) = 3
     /\ \A k \in 1 .. 3 : inserted[k].priority_level = inserted[1].priority_level
     /\ Len(returned) >= 2) =>
        /\ returned[1] = inserted[1]
        /\ returned[2] = inserted[3]
        /\ Len(returned) = 2 => Entries(waiting_list) = {inserted[2]}
        /\ Len(returned) >= 3 => returned[3] = inserted[2]

\* C17 witness: of three patients of equal priority, patient 3 has just been
\* extracted while patient 2, inserted before it, is still in the heap.
C17_Witness ==
    /\ lastOp = "extract_min"
    /\ Len(inserted) = 3
    /\ \A k \in 1 .. 3 : inserted[k].priority_level = inserted[1].priority_level
    /\ Len(returned) = 2
    /\ ret[1].patient_id = 3
    /\ waiting_list.size = 1
    /\ waiting_list.patients[0].patient_id = 2
    /\ waiting_list.patients[0].priority_level = ret[1].priority_level

\* the ids of a set or of a sequence of patients
IdsOf(patients) == {p.patient_id : p \in patients}
IdsOfSeq(patients) == {patients[k].patient_id : k \in 1 .. Len(patients)}

\* C19: patients are conserved: the number of add_patient calls that were not
\* refused equals the size of the waiting list plus the number of patients
\* treat_next_patient extracted; the log's size is the smaller of that number
\* and the log's capacity; and the ids waiting are exactly the ids admitted
\* without refusal minus the ids extracted.
C19_Conservation ==
    /\ Cardinality(admitted) = waiting_list.size + Len(served)
    /\ treated_log.size = IF Len(served) < treated_log.capacity
                          THEN Len(served) ELSE treated_log.capacity
    /\ Cardinality(IdsOfSeq(served)) = Len(served)
    /\ IdsOf(Entries(waiting_list)) = IdsOf(admitted) \ IdsOfSeq(served)

\* C19 witness: an admission was refused, more patients were treated than the
\* log holds, and a patient is still waiting.
C19_Witness ==
    /\ admits > Cardinality(admitted)
    /\ Cardinality(admitted) >= 4
    /\ Len(served) > treated_log.capacity
    /\ waiting_list.size >= 1

\* the patients treated since draining began
ServedInDrain == SubSeq(served, drain[1].served + 1, Len(served))

\* the waiting list is empty and the patients treated since draining began are
\* exactly the patients that were waiting then, each once
Drained ==
    /\ drain # <<>>
    /\ waiting_list.size = 0
    /\ Len(ServedInDrain) = drain[1].heap.size
    /\ {ServedInDrain[k] : k \in 1 .. Len(ServedInDrain)} = Entries(drain[1].heap)

\* C18: once only treat_next_patient is called, and keeps being called, the
\* waiting list becomes empty: every call on a non-empty waiting list lowers
\* its size by exactly 1, so that size plus the number of patients treated
\* since draining began stays the size draining began with, and when the
\* waiting list is empty the patients treated since are exactly those that
\* were waiting, each once.  The walk of each extraction stays within the
\* slots below the size it started with.
C18_DrainTerminates ==
    /\ (drain # <<>>) ~> Drained
    /\ [](drain # <<>> =>
            /\ waiting_list.size + Len(ServedInDrain) = drain[1].heap.size
            /\ \A j, k \in 1 .. Len(ServedInDrain) :
                  j # k => ServedInDrain[j] # ServedInDrain[k]
            /\ \A k \in 1 .. Len(ServedInDrain) :
                  ServedInDrain[k] \in Entries(drain[1].heap)
            /\ extract_indices(waiting_list) \subseteq 0 .. waiting_list.size - 1)
    /\ [][(DrainTreat /\ waiting_list.size > 0) =>
            /\ waiting_list'.size = waiting_list.size - 1
            /\ Len(served') = Len(served) + 1]_vars

\* C18 witness: draining began with at least four patients waiting, and the
\* treat_next_patient call just made has emptied the waiting list.
C18_Witness ==
    /\ drain # <<>>
    /\ drain[1].heap.size >= 4
    /\ lastOp = "treat_next_patient"
    /\ Len(ret) = 1
    /\ Drained

====
